---- MODULE Spec2Model ----
(***************************************************************************)
(* Model of the two batch pipelines of CVParser:                           *)
(*   cv_downloader.py  spreadsheet links -> PDF files -> zip archive       *)
(*   cv_parser.py      PDF files -> LLM completion -> CSV sorted by stem   *)
(* together with the pure helpers they call (modify_dropbox_link,          *)
(* is_pdf_url, extract_education_context).                                 *)
(*                                                                         *)
(* Python strings are modelled as sequences of one-character strings, so   *)
(* that substring tests, replacement, slicing and parsing are computed     *)
(* the way the code computes them.                                         *)
(***************************************************************************)
EXTENDS Integers, Sequences, FiniteSets, TLC

(***************************************************************************)
(* String helpers (Python str operations on character sequences)           *)
(***************************************************************************)

\* s[a:b] with 0-based Python slice bounds already clamped by the caller.
Slice(s, a, b) == SubSeq(s, a + 1, b)

\* s.startswith(p)
StartsWith(s, p) == Len(p) <= Len(s) /\ SubSeq(s, 1, Len(p)) = p

\* s.endswith(p)
EndsWith(s, p) == Len(p) <= Len(s) /\ SubSeq(s, Len(s) - Len(p) + 1, Len(s)) = p

\* 1-based positions at which sub occurs in s
Occurrences(s, sub) ==
    { i \in 1..(Len(s) - Len(sub) + 1) : SubSeq(s, i, i + Len(sub) - 1) = sub }

\* sub in s
Contains(s, sub) == Occurrences(s, sub) # {}

Min(S) == CHOOSE x \in S : \A y \in S : x <= y

\* s.find(sub): 1-based position of the first occurrence, 0 when absent
Find(s, sub) == IF Contains(s, sub) THEN Min(Occurrences(s, sub)) ELSE 0

\* s.replace(old, new): every non-overlapping occurrence, left to right
RECURSIVE Replace(_, _, _)
Replace(s, old, new) ==
    IF ~Contains(s, old) THEN s
    ELSE LET i == Find(s, old)
         IN  SubSeq(s, 1, i - 1) \o new
               \o Replace(SubSeq(s, i + Len(old), Len(s)), old, new)

UpperChars == {"A","B","C","D","E","F","G","H","I","J","K","L","M",
               "N","O","P","Q","R","S","T","U","V","W","X","Y","Z"}

LowerOf ==
    [ c \in UpperChars |->
        CASE c = "A" -> "a" [] c = "B" -> "b" [] c = "C" -> "c" [] c = "D" -> "d"
          [] c = "E" -> "e" [] c = "F" -> "f" [] c = "G" -> "g" [] c = "H" -> "h"
          [] c = "I" -> "i" [] c = "J" -> "j" [] c = "K" -> "k" [] c = "L" -> "l"
          [] c = "M" -> "m" [] c = "N" -> "n" [] c = "O" -> "o" [] c = "P" -> "p"
          [] c = "Q" -> "q" [] c = "R" -> "r" [] c = "S" -> "s" [] c = "T" -> "t"
          [] c = "U" -> "u" [] c = "V" -> "v" [] c = "W" -> "w" [] c = "X" -> "x"
          [] c = "Y" -> "y" [] c = "Z" -> "z" ]

LowerChar(c) == IF c \in UpperChars THEN LowerOf[c] ELSE c

\* s.lower()
Lower(s) == [ i \in 1..Len(s) |-> LowerChar(s[i]) ]

(***************************************************************************)
(* URL fragments used to build the input links                             *)
(***************************************************************************)
Https == <<"h","t","t","p","s",":","/","/">>

DropboxHost == <<"w","w","w",".","d","r","o","p","b","o","x",".","c","o","m">>

OtherHost == <<"e","x","a","m","p","l","e",".","o","r","g">>

SharePath == <<"/","s","/","a","b","c","/","f","i","l","e">>

ProfilePath == <<"/","i","n","/","j","a","n","e">>

DotPdf == <<".","p","d","f">>

DotPdfUpper == <<".","P","D","F">>

QDl0 == <<"?","d","l","=","0">>

QDl1 == <<"?","d","l","=","1">>

QOther == <<"?","v","=","2">>

StrDropbox == <<"d","r","o","p","b","o","x",".","c","o","m">>

StrDl0 == <<"d","l","=","0">>

StrDl1 == <<"d","l","=","1">>

StrAmpDl1 == <<"&","d","l","=","1">>

StrEducation == <<"e","d","u","c","a","t","i","o","n">>

(***************************************************************************)
(* cv_downloader.py: pure helpers                                          *)
(***************************************************************************)

Letters ==
    UpperChars \cup {"a","b","c","d","e","f","g","h","i","j","k","l","m",
                     "n","o","p","q","r","s","t","u","v","w","x","y","z"}

Digits == {"0","1","2","3","4","5","6","7","8","9"}

SchemeChars == Letters \cup Digits \cup {"+", "-", "."}

\* 1-based position of the first character of s that is in cs, from position
\* from on; Len(s) + 1 when there is none
FirstOf(s, cs, from) ==
    LET hits == { i \in from..Len(s) : s[i] \in cs }
    IN  IF hits = {} THEN Len(s) + 1 ELSE Min(hits)

\* 1-based position of the last occurrence of character c in s, 0 when absent
LastOf(s, c) ==
    LET hits == { i \in 1..Len(s) : s[i] = c }
    IN  IF hits = {} THEN 0 ELSE CHOOSE i \in hits : \A j \in hits : j <= i

\* urlsplit: the url with a valid leading "scheme:" removed
AfterScheme(url) ==
    LET i == FirstOf(url, {":"}, 1)
    IN  IF /\ i > 1 /\ i <= Len(url)
           /\ url[1] \in Letters
           /\ \A k \in 1..(i - 1) : url[k] \in SchemeChars
        THEN SubSeq(url, i + 1, Len(url))
        ELSE url

\* urlsplit: the url with a leading "//netloc" removed
AfterNetloc(rest) ==
    IF StartsWith(rest, <<"/", "/">>)
    THEN SubSeq(rest, FirstOf(rest, {"/", "?", "#"}, 3), Len(rest))
    ELSE rest

\* urlparse: the path with the ";params" of its last segment removed
SplitParams(path) ==
    LET i == FirstOf(path, {";"}, IF LastOf(path, "/") = 0 THEN 1 ELSE LastOf(path, "/"))
    IN  IF i > Len(path) THEN path ELSE SubSeq(path, 1, i - 1)

\* urlparse(url).path
UrlPath(url) ==
    LET rest     == AfterNetloc(AfterScheme(url))
        noFrag   == SubSeq(rest, 1, FirstOf(rest, {"#"}, 1) - 1)
        noQuery  == SubSeq(noFrag, 1, FirstOf(noFrag, {"?"}, 1) - 1)
    IN  SplitParams(noQuery)

\* A variant that also accepts a path in which ".pdf" is followed by more text.
is_pdf_url_contains(url) == Contains(Lower(UrlPath(url)), DotPdf)

is_pdf_url(url) == EndsWith(Lower(UrlPath(url)), DotPdf)

modify_dropbox_link(link) ==
    IF Contains(link, StrDropbox)
    THEN IF Contains(link, StrDl0)
         THEN Replace(link, StrDl0, StrDl1)
         ELSE link \o StrAmpDl1
    ELSE link

(***************************************************************************)
(* Input links                                                             *)
(***************************************************************************)
UrlPlainPdf == Https \o OtherHost \o SharePath \o DotPdf

UrlUpperPdf == Https \o OtherHost \o SharePath \o DotPdfUpper \o QOther

UrlProfile == Https \o OtherHost \o ProfilePath

UrlDropboxDl0 == Https \o DropboxHost \o SharePath \o DotPdf \o QDl0

UrlDropboxDl1 == Https \o DropboxHost \o SharePath \o DotPdf \o QDl1

UrlDropboxBare == Https \o DropboxHost \o SharePath \o DotPdf

UrlDropboxFolder == Https \o DropboxHost \o ProfilePath \o QDl0

UrlDl0NoDropbox == Https \o OtherHost \o SharePath \o DotPdf \o QDl0

(***************************************************************************)
(* cv_parser.py: extract_education_context                                 *)
(***************************************************************************)
WINDOW_SIZE == 60

\* re.compile(r'education', re.IGNORECASE).search(text): 1-based start of the
\* first match, 0 when there is none
SearchEducation(text) == Find(Lower(text), StrEducation)

\* text[:n]
Prefix(text, n) == SubSeq(text, 1, IF n < Len(text) THEN n ELSE Len(text))

extract_education_context(text, api_choice, window_size) ==
    IF api_choice = "ollama"
    THEN LET m == SearchEducation(text)
         IN  IF m > 0
             THEN LET matchEnd == m - 1 + Len(StrEducation)
                      end == IF Len(text) < matchEnd + window_size * 6
                             THEN Len(text) ELSE matchEnd + window_size * 6
                  IN  Slice(text, m - 1, end)
             ELSE Prefix(text, window_size * 6 * 3)
    ELSE Prefix(text, window_size * 6 * 20)

\* Document texts for the context-window step: padding, an optional anchor
\* in some letter case, padding, and optionally a second anchor.
Pad(n) == [ i \in 1..n |-> "x" ]

Anchors ==
    { <<>>,
      <<"e","d","u","c","a","t","i","o","n">>,
      <<"E","D","U","C","A","T","I","O","N">>,
      <<"E","d","u","c","a","t","i","o","n">> }

PreLens == {0, 3, 1100, 7300}

PostLens == {0, 400, 7300}

ContextTexts ==
    { Pad(a) \o anc \o Pad(b) \o tail :
        a \in PreLens, anc \in Anchors, b \in PostLens, tail \in {<<>>, StrEducation} }

Apis == {"openai", "ollama"}

(***************************************************************************)
(* Configuration constants and bounds                                      *)
(***************************************************************************)
MAX_THREADS == 10

PARSER_MAX_WORKERS == 5

ROW_RANGE_START == 0

ROW_RANGE_END == 6000

BACKOFF_MAX_TRIES == 2

\* Largest spreadsheet / directory whose contents are drawn freely
MaxRows == 2

MaxFiles == 2

\* A full batch has this many units more than the pipeline has worker threads
Extra == 1

None == "<None>"

(***************************************************************************)
(* State                                                                   *)
(***************************************************************************)
VARIABLES
    mode,       \* which program runs: "download", "parser", or a helper call
    pc,         \* position of the main thread
    exitCode,   \* <<status>> once the process has ended, <<>> before
    log,        \* set of log records written so far
    \* --- inputs of cv_downloader.py
    excelOk,    \* whether pd.read_excel succeeds
    df,         \* the spreadsheet column: sequence of cells
    net,        \* what the server does for the link of each row
    \* --- inputs of cv_parser.py
    api,        \* args.api
    dirOk,      \* whether input_dir.is_dir()
    dir,        \* the *.pdf files of the directory: set of [stem, doc]
    \* --- executor
    items,      \* the work items [id, ref], in submission order
    nsub,       \* number of futures created so far
    st,         \* per item: "new", "queued", "running", "done"
    res,        \* per item: the value or exception its future holds
    calls,      \* per item: outcomes of the completion calls made so far
    threads,    \* worker threads spawned
    got,        \* per item: how many times the loop observed its outcome
    \* --- effects
    requests,   \* identities for which an HTTP GET was issued
    disk,       \* OUTPUT_DIR (empty at start): set of [name, content]
    zip,        \* the archive: [written, entries]
    csv_data,   \* rows appended by the collection loop
    csv,        \* the CSV: [written, rows]
    \* --- helper calls
    fnUrl, fnNorm, fnText, fnApi, fnCtx

vars ==
    << mode, pc, exitCode, log, excelOk, df, net, api, dirOk, dir, items, nsub,
       st, res, calls, threads, got, requests, disk, zip, csv_data, csv,
       fnUrl, fnNorm, fnText, fnApi, fnCtx >>

inputVars == << mode, excelOk, df, net, api, dirOk, dir >>

execVars == << items, nsub, st, res, calls, threads, got >>

effectVars == << requests, disk, zip, csv_data, csv >>

fnVars == << fnUrl, fnNorm, fnText, fnApi, fnCtx >>

(***************************************************************************)
(* cv_downloader.py: inputs                                                *)
(***************************************************************************)
\* A spreadsheet cell is a record: kind "nan" (empty cell, dropped by
\* dropna), kind "num" (a numeric cell, which pandas returns as a number,
\* not a str) or kind "str" holding a link.
\* The state names a link; LinkChars gives its characters.
LinkNames ==
    {"plain_pdf", "upper_pdf", "profile", "dropbox_dl0", "dropbox_dl1",
     "dropbox_bare", "dropbox_folder", "dl0_no_dropbox", "empty"}

LinkChars(name) ==
    CASE name = "plain_pdf" -> UrlPlainPdf
      [] name = "upper_pdf" -> UrlUpperPdf
      [] name = "profile" -> UrlProfile
      [] name = "dropbox_dl0" -> UrlDropboxDl0
      [] name = "dropbox_dl1" -> UrlDropboxDl1
      [] name = "dropbox_bare" -> UrlDropboxBare
      [] name = "dropbox_folder" -> UrlDropboxFolder
      [] name = "dl0_no_dropbox" -> UrlDl0NoDropbox
      [] OTHER -> <<>>

\* lines 82-84 of process_link for each link: the normalized link and whether
\* it passes the pre-filter (tabulated once, the links being fixed)
PdfUrlOf == [ n \in LinkNames |-> modify_dropbox_link(LinkChars(n)) ]

PassesFilter == [ n \in LinkNames |-> is_pdf_url(PdfUrlOf[n]) ]

NanCell == [kind |-> "nan", link |-> "empty"]

NumCell == [kind |-> "num", link |-> "empty"]

StrCell(name) == [kind |-> "str", link |-> name]

\* What the server does when the link is requested: "ok" (2xx and the whole
\* body), "http_error" (timeout, connection error or non-2xx status, before
\* the file is opened), "stream_error" (2xx, then the connection drops while
\* iter_content is being written to the open file).
Responses == {"ok", "http_error", "stream_error"}

\* Spreadsheet rows drawn freely for small tables
Rows ==
    { [cell |-> NanCell, resp |-> "ok"],
      [cell |-> NumCell, resp |-> "ok"],
      [cell |-> StrCell("profile"), resp |-> "ok"],
      [cell |-> StrCell("dropbox_bare"), resp |-> "ok"],
      [cell |-> StrCell("dropbox_dl0"), resp |-> "ok"],
      [cell |-> StrCell("plain_pdf"), resp |-> "ok"],
      [cell |-> StrCell("plain_pdf"), resp |-> "http_error"],
      [cell |-> StrCell("upper_pdf"), resp |-> "stream_error"] }

SmallTables == UNION { [1..n -> Rows] : n \in 0..MaxRows }

\* A table with more links than worker threads; every other download fails.
FullTable ==
    [ k \in 1..(MAX_THREADS + Extra) |->
        [cell |-> StrCell("plain_pdf"),
         resp |-> IF k % 2 = 0 THEN "http_error" ELSE "ok"] ]

(***************************************************************************)
(* cv_downloader.py: source enumerator                                     *)
(***************************************************************************)
\* df.iloc[ROW_RANGE[0]:ROW_RANGE[1]].dropna(): the rows kept, each with its
\* pandas index (0-based position in the sheet)
SelectedRows(table) ==
    LET indexed == [ k \in 1..Len(table) |-> [index |-> k - 1, cell |-> table[k]] ]
        hi      == IF ROW_RANGE_END < Len(table) THEN ROW_RANGE_END ELSE Len(table)
        sliced  == SubSeq(indexed, ROW_RANGE_START + 1, hi)
    IN  SelectSeq(sliced, LAMBDA r : r.cell.kind # "nan")

\* zip(links, row_numbers) with the identity row_num + 2 of each future; the
\* link itself stays in the sheet, at pandas index `ref`
DownloadItems(table) ==
    LET rows == SelectedRows(table)
    IN  [ i \in 1..Len(rows) |-> [id |-> rows[i].index + 2, ref |-> rows[i].index] ]

(***************************************************************************)
(* Executor state helpers                                                  *)
(***************************************************************************)
NoRow == [name |-> <<>>, fields |-> <<>>]

Pending == [kind |-> "pending", row |-> NoRow]

Value(k) == [kind |-> k, row |-> NoRow]

Idx == 1..Len(items)

\* the link of item i (cv_downloader.py) / the file of item i (cv_parser.py)
Link(i) == df[items[i].ref + 1]

File(i) == CHOOSE f \in dir : f.stem = items[i].ref

Running == { i \in Idx : st[i] = "running" }

Queued == { i \in Idx : st[i] = "queued" }

LogRec(level, event, id) == [level |-> level, event |-> event, id |-> id]

\* open(save_path, 'wb') and the writes that follow replace the file
Overwrite(d, name, content) ==
    { f \in d : f.name # name } \cup { [name |-> name, content |-> content] }

MaxWorkers == IF mode = "download" THEN MAX_THREADS ELSE PARSER_MAX_WORKERS

\* ThreadPoolExecutor._adjust_thread_count: submit spawns a worker thread
\* while fewer than max_workers exist.  (Later CPython versions also skip
\* the spawn when a worker is waiting; that only removes schedules.)
SpawnsOffByOne(n, k) == n <= k

Spawns(n, k) == n < k

(***************************************************************************)
(* cv_downloader.py: main thread up to the executor                        *)
(***************************************************************************)
\* lines 29-45: read the sheet, or log and exit(1); select the links
DownloadStartup ==
    /\ mode = "download" /\ pc = "startup"
    /\ IF ~excelOk
       THEN /\ log' = log \cup {LogRec("ERROR", "read_excel", 0)}
            /\ exitCode' = <<1>>
            /\ pc' = "exited"
            /\ UNCHANGED items
       ELSE /\ log' = log \cup {LogRec("INFO", "read_excel", 0)}
            /\ items' = DownloadItems(df)
            /\ pc' = "submit"
            /\ UNCHANGED exitCode
    /\ st' = [ i \in 1..Len(items') |-> "new" ]
    /\ res' = [ i \in 1..Len(items') |-> Pending ]
    /\ calls' = [ i \in 1..Len(items') |-> <<>> ]
    /\ got' = [ i \in 1..Len(items') |-> 0 ]
    /\ UNCHANGED << inputVars, nsub, threads, effectVars, fnVars >>

(***************************************************************************)
(* concurrent.futures.ThreadPoolExecutor, as both programs use it          *)
(***************************************************************************)
\* executor.submit(...) for the next item of the dict comprehension
Submit ==
    /\ pc = "submit" /\ nsub < Len(items)
    /\ nsub' = nsub + 1
    /\ st' = [st EXCEPT ![nsub + 1] = "queued"]
    /\ threads' = IF Spawns(threads, MaxWorkers) THEN threads + 1 ELSE threads
    /\ UNCHANGED << inputVars, pc, exitCode, log, items, res, calls, got,
                    effectVars, fnVars >>

\* every future is created: the main thread enters the as_completed loop
SubmitDone ==
    /\ pc = "submit" /\ nsub = Len(items)
    /\ pc' = "collect"
    /\ UNCHANGED << inputVars, exitCode, log, execVars, effectVars, fnVars >>

\* a free worker thread takes the oldest queued work item (FIFO queue)
Start(i) ==
    /\ st[i] = "queued"
    /\ \A j \in Queued : i <= j
    /\ Cardinality(Running) < threads
    /\ st' = [st EXCEPT ![i] = "running"]
    /\ UNCHANGED << inputVars, pc, exitCode, log, items, nsub, res, calls,
                    threads, got, effectVars, fnVars >>

(***************************************************************************)
(* cv_downloader.py: unit processor                                        *)
(***************************************************************************)
\* the outcome of process_link(link, row_num) run on item i:
\* [result, request, file, logs]
ProcessLink(i) ==
    LET id   == items[i].id
        cell == Link(i)
        resp == net[items[i].ref + 1]
    IN  IF cell.kind # "str"
        THEN \* "dropbox.com" in link raises TypeError for a non-str cell
             [result |-> "raise", request |-> FALSE, file |-> "keep", logs |-> {}]
        ELSE IF ~PassesFilter[cell.link]
        THEN [result |-> "false", request |-> FALSE, file |-> "keep",
              logs |-> {LogRec("WARNING", "not_pdf", id)}]
        ELSE \* download_pdf
             CASE resp = "ok" ->
                    [result |-> "true", request |-> TRUE, file |-> "full",
                     logs |-> {LogRec("INFO", "downloaded", id)}]
               [] resp = "http_error" ->
                    [result |-> "false", request |-> TRUE, file |-> "keep",
                     logs |-> {LogRec("ERROR", "download", id)}]
               [] resp = "stream_error" ->
                    [result |-> "false", request |-> TRUE, file |-> "partial",
                     logs |-> {LogRec("ERROR", "download", id)}]

\* a worker thread runs process_link for item i to its end
RunDownload(i) ==
    /\ mode = "download" /\ st[i] = "running"
    /\ LET out == ProcessLink(i)
           id  == items[i].id
       IN  /\ res' = [res EXCEPT ![i] = Value(out.result)]
           /\ requests' = IF out.request THEN requests \cup {id} ELSE requests
           /\ disk' = IF out.file = "keep" THEN disk ELSE Overwrite(disk, id, out.file)
           /\ log' = log \cup out.logs
    /\ st' = [st EXCEPT ![i] = "done"]
    /\ UNCHANGED << inputVars, pc, exitCode, items, nsub, calls, threads, got,
                    zip, csv_data, csv, fnVars >>

(***************************************************************************)
(* cv_downloader.py: collection loop and archive                           *)
(***************************************************************************)
\* A loop body without the try/except: the exception leaves the loop.
CollectDownloadNoCatch(i) ==
    /\ mode = "download" /\ pc = "collect"
    /\ st[i] = "done" /\ got[i] = 0
    /\ IF res[i].kind = "raise"
       THEN /\ pc' = "crashed" /\ exitCode' = <<1>>
            /\ UNCHANGED << got, log >>
       ELSE /\ got' = [got EXCEPT ![i] = @ + 1]
            /\ log' = IF res[i].kind = "false"
                      THEN log \cup {LogRec("WARNING", "failed", items[i].id)}
                      ELSE log
            /\ UNCHANGED << pc, exitCode >>
    /\ UNCHANGED << inputVars, items, nsub, st, res, calls, threads,
                    effectVars, fnVars >>

\* lines 98-105: as_completed yields a finished future not yet yielded
CollectDownload(i) ==
    /\ mode = "download" /\ pc = "collect"
    /\ st[i] = "done" /\ got[i] = 0
    /\ got' = [got EXCEPT ![i] = @ + 1]
    /\ log' = CASE res[i].kind = "raise" ->
                     log \cup {LogRec("ERROR", "processing", items[i].id)}
                [] res[i].kind = "false" ->
                     log \cup {LogRec("WARNING", "failed", items[i].id)}
                [] OTHER -> log
    /\ UNCHANGED << inputVars, pc, exitCode, items, nsub, st, res, calls,
                    threads, effectVars, fnVars >>

\* as_completed is exhausted and the with-block has joined the workers
CollectDone ==
    /\ pc = "collect"
    /\ \A i \in Idx : got[i] > 0
    /\ pc' = "aggregate"
    /\ UNCHANGED << inputVars, exitCode, log, execVars, effectVars, fnVars >>

\* lines 107-117: every file found in OUTPUT_DIR goes into the archive under
\* its bare file name (the write itself is taken to succeed)
CreateZip ==
    /\ mode = "download" /\ pc = "aggregate"
    /\ zip' = [written |-> TRUE, entries |-> disk]
    /\ log' = log \cup {LogRec("INFO", "zipped", 0)}
    /\ pc' = "done"
    /\ exitCode' = <<0>>
    /\ UNCHANGED << inputVars, execVars, requests, disk, csv_data, csv, fnVars >>

(***************************************************************************)
(* cv_parser.py: inputs                                                    *)
(***************************************************************************)
\* What extract_text_from_pdf returns: None (ok = FALSE) or the text
NoText == [ok |-> FALSE, chars |-> <<>>]

EmptyText == [ok |-> TRUE, chars |-> <<>>]

CvText ==
    [ok |-> TRUE,
     chars |-> <<"C","V"," ","E","d","u","c","a","t","i","o","n"," ","M","I","T">>]

BioText == [ok |-> TRUE, chars |-> <<"B","i","o"," ","M","I","T">>]

\* What the completion backend does on one call: raise a rate-limit error,
\* raise another error, or answer with a body
Outcomes == {"ratelimit", "error", "good", "empty_dict", "list", "garbage"}

\* A document: its extracted text and what the backend does on the first,
\* second, ... call made for it (the last entry repeats)
Doc(text, script) == [text |-> text, script |-> script]

Docs ==
    { Doc(NoText, <<"good">>),
      Doc(EmptyText, <<"good">>),
      Doc(CvText, <<"good">>),
      Doc(BioText, <<"empty_dict">>),
      Doc(CvText, <<"garbage">>),
      Doc(CvText, <<"ratelimit", "good">>) }

DocCycle ==
    << Doc(CvText, <<"good">>),
       Doc(CvText, <<"ratelimit", "ratelimit">>),
       Doc(BioText, <<"error", "good">>),
       Doc(CvText, <<"ratelimit", "good">>),
       Doc(CvText, <<"list">>),
       Doc(CvText, <<"ratelimit", "error">>) >>

DigitChar == <<"0","1","2","3","4","5","6","7","8","9">>

\* str(n) for 0 <= n < 100
Str(n) == IF n < 10 THEN <<DigitChar[n + 1]>>
          ELSE <<DigitChar[(n \div 10) + 1], DigitChar[(n % 10) + 1]>>

Stems == { <<"2">>, <<"1","0">>, <<"0","2">>, <<"c","v">> }

\* directories: the stems are distinct, the documents drawn freely
SmallDirs ==
    UNION { { { [stem |-> s, doc |-> d[s]] : s \in ss } : d \in [ss -> Docs] } :
              ss \in { x \in SUBSET Stems : Cardinality(x) <= MaxFiles } }

\* a directory with more files than worker threads
FullDir ==
    { [stem |-> Str(k), doc |-> DocCycle[(k % Len(DocCycle)) + 1]] :
        k \in 1..(PARSER_MAX_WORKERS + Extra) }

(***************************************************************************)
(* cv_parser.py: identity of a file                                        *)
(***************************************************************************)
DigitValue(c) == CHOOSE v \in 0..9 : DigitChar[v + 1] = c

IsInt(chars) == Len(chars) > 0 /\ \A k \in 1..Len(chars) : chars[k] \in Digits

\* int(x) for a string of decimal digits
RECURSIVE ParseInt(_)
ParseInt(chars) ==
    IF Len(chars) = 0 THEN 0
    ELSE 10 * ParseInt(SubSeq(chars, 1, Len(chars) - 1)) + DigitValue(chars[Len(chars)])

\* pdf_file.name
FileName(f) == f.stem \o DotPdf

\* every order sorted(list(glob), key=int(stem)) can give: ascending by key,
\* files of equal key in the order glob happened to list them
RECURSIVE SortedFiles(_)
SortedFiles(fs) ==
    IF fs = {} THEN { <<>> }
    ELSE LET least == { f \in fs : \A g \in fs : ParseInt(f.stem) <= ParseInt(g.stem) }
         IN  UNION { { <<f>> \o t : t \in SortedFiles(fs \ {f}) } : f \in least }

(***************************************************************************)
(* cv_parser.py: completion backends                                       *)
(***************************************************************************)
\* The body the backend answers with, as the text of its message
BodyOf(outcome, api_choice) ==
    CASE outcome = "good" /\ api_choice = "openai" ->
           "{\"education_trajectory\": \"B.A., MIT, 2001\", \"career_trajectory\": \"MIT, 2002-2005, Lecturer\"}"
      [] outcome = "good" /\ api_choice = "ollama" ->
           " {\"bachelors\": \"MIT\", \"masters\": \"null\"} "
      [] outcome = "empty_dict" -> "{}"
      [] outcome = "list" -> "[\"MIT\"]"
      [] OTHER -> "Sure! Here is the JSON you asked for"

\* json.loads(body.strip()) on the bodies above: whether it parses, whether
\* the value is a dict, and the dict
json_loads(body) ==
    CASE body = "{\"education_trajectory\": \"B.A., MIT, 2001\", \"career_trajectory\": \"MIT, 2002-2005, Lecturer\"}" ->
           [ok |-> TRUE, isDict |-> TRUE,
            dict |-> [education_trajectory |-> "B.A., MIT, 2001",
                      career_trajectory |-> "MIT, 2002-2005, Lecturer"]]
      [] body = " {\"bachelors\": \"MIT\", \"masters\": \"null\"} " ->
           [ok |-> TRUE, isDict |-> TRUE,
            dict |-> [bachelors |-> "MIT", masters |-> "null"]]
      [] body = "{}" -> [ok |-> TRUE, isDict |-> TRUE, dict |-> <<>>]
      [] body = "[\"MIT\"]" -> [ok |-> TRUE, isDict |-> FALSE, dict |-> <<>>]
      [] OTHER -> [ok |-> FALSE, isDict |-> FALSE, dict |-> <<>>]

\* d.get(k, None)
Get(d, k) == IF k \in DOMAIN d THEN d[k] ELSE None

\* lines 108-110: a "null" string under a degree key becomes None
NullsToNone(d) ==
    [ k \in DOMAIN d |->
        IF k \in {"bachelors", "masters", "phd"} /\ d[k] = "null" THEN None ELSE d[k] ]

\* backoff.on_exception(backoff.constant, openai.RateLimitError, max_tries=2):
\* after `made` calls, the last of which ended with `outcome`, call again?
ShouldRetryAnyError(outcome, made) ==
    outcome \in {"ratelimit", "error"} /\ made < BACKOFF_MAX_TRIES

ShouldRetry(outcome, made) == outcome = "ratelimit" /\ made < BACKOFF_MAX_TRIES

\* What extract_education_history returns once the call ended with `outcome`
\* and is not retried: [none, dict, logs]
HistoryOf(outcome, api_choice, id) ==
    IF outcome \in {"ratelimit", "error"}
    THEN \* except Exception: logged, None
         [none |-> TRUE, dict |-> <<>>, logs |-> {LogRec("ERROR", "api", id)}]
    ELSE LET parsed == json_loads(BodyOf(outcome, api_choice))
         IN  IF parsed.ok /\ parsed.isDict
             THEN [none |-> FALSE,
                   dict |-> IF api_choice = "ollama"
                            THEN NullsToNone(parsed.dict) ELSE parsed.dict,
                   logs |-> {}]
             ELSE [none |-> TRUE, dict |-> <<>>,
                   logs |-> {LogRec("WARNING", "not_json", id)}]

\* worker(pdf_file): the row built from a history, or no row
RowOf(f, history, api_choice) ==
    IF history.none \/ DOMAIN history.dict = {}
    THEN Value("none")
    ELSE [kind |-> "row",
          row |-> [name |-> FileName(f),
                   fields |-> IF api_choice = "openai"
                              THEN [education_trajectory |-> Get(history.dict, "education_trajectory"),
                                    career_trajectory |-> Get(history.dict, "career_trajectory")]
                              ELSE [Bachelors |-> Get(history.dict, "bachelors"),
                                    Masters |-> Get(history.dict, "masters"),
                                    PhD |-> Get(history.dict, "phd")]]]

\* the outcome of the k-th completion call made for a document
OutcomeAt(doc, k) ==
    IF k <= Len(doc.script) THEN doc.script[k] ELSE doc.script[Len(doc.script)]

(***************************************************************************)
(* cv_parser.py: main thread up to the executor                            *)
(***************************************************************************)
\* lines 255-268: check the directory, list and sort the files
ParserStartup ==
    /\ mode = "parser" /\ pc = "startup"
    /\ IF ~dirOk
       THEN \* logged, then main returns: the interpreter exits with status 0
            /\ log' = log \cup {LogRec("ERROR", "not_a_directory", 0)}
            /\ exitCode' = <<0>>
            /\ pc' = "exited"
            /\ UNCHANGED items
       ELSE IF \E f \in dir : ~IsInt(f.stem)
       THEN \* int(x.stem) raises ValueError out of main
            /\ exitCode' = <<1>>
            /\ pc' = "crashed"
            /\ UNCHANGED << items, log >>
       ELSE IF dir = {}
       THEN /\ log' = log \cup {LogRec("INFO", "no_pdf_files", 0)}
            /\ exitCode' = <<0>>
            /\ pc' = "exited"
            /\ UNCHANGED items
       ELSE /\ \E fs \in SortedFiles(dir) :
                 items' = [ i \in 1..Len(fs) |->
                              [id |-> ParseInt(fs[i].stem), ref |-> fs[i].stem] ]
            /\ log' = log \cup {LogRec("INFO", "found_pdf_files", 0)}
            /\ pc' = "submit"
            /\ UNCHANGED exitCode
    /\ st' = [ i \in 1..Len(items') |-> "new" ]
    /\ res' = [ i \in 1..Len(items') |-> Pending ]
    /\ calls' = [ i \in 1..Len(items') |-> <<>> ]
    /\ got' = [ i \in 1..Len(items') |-> 0 ]
    /\ UNCHANGED << inputVars, nsub, threads, effectVars, fnVars >>

(***************************************************************************)
(* cv_parser.py: unit processor                                            *)
(***************************************************************************)
\* item i's worker ends with result r and log records ls
Finish(i, r, ls) ==
    /\ res' = [res EXCEPT ![i] = r]
    /\ st' = [st EXCEPT ![i] = "done"]
    /\ log' = log \cup ls

\* A worker thread advances worker(pdf_file) for item i: up to the end when
\* no text or context is found, else through one completion call
RunParser(i) ==
    /\ mode = "parser" /\ st[i] = "running"
    /\ LET f    == File(i)
           id   == items[i].id
           text == f.doc.text
           ctx  == extract_education_context(text.chars, api, WINDOW_SIZE)
       IN  IF ~text.ok \/ text.chars = <<>>
           THEN /\ Finish(i, Value("none"), {LogRec("WARNING", "no_text", id)})
                /\ UNCHANGED calls
           ELSE IF ctx = <<>>
           THEN /\ Finish(i, Value("none"), {LogRec("WARNING", "no_context", id)})
                /\ UNCHANGED calls
           ELSE LET outcome == OutcomeAt(f.doc, Len(calls[i]) + 1)
                    made    == Len(calls[i]) + 1
                IN  /\ calls' = [calls EXCEPT ![i] = Append(@, outcome)]
                    /\ IF api = "openai" /\ ShouldRetry(outcome, made)
                       THEN \* backoff sleeps `interval` seconds and calls again
                            UNCHANGED << res, st, log >>
                       ELSE LET h == HistoryOf(outcome, api, id)
                            IN  Finish(i, RowOf(f, h, api),
                                       h.logs \cup
                                       { IF h.none
                                         THEN LogRec("WARNING", "no_history", id)
                                         ELSE LogRec("INFO", "extracted", id) })
    /\ UNCHANGED << inputVars, pc, exitCode, items, nsub, threads, got,
                    effectVars, fnVars >>

(***************************************************************************)
(* cv_parser.py: collection loop and CSV                                   *)
(***************************************************************************)
\* lines 294-297: as_completed yields a finished future not yet yielded;
\* future.result() is not guarded, so an exception would leave main
CollectParser(i) ==
    /\ mode = "parser" /\ pc = "collect"
    /\ st[i] = "done" /\ got[i] = 0
    /\ IF res[i].kind = "raise"
       THEN /\ pc' = "crashed" /\ exitCode' = <<1>>
            /\ UNCHANGED << got, csv_data >>
       ELSE /\ got' = [got EXCEPT ![i] = @ + 1]
            /\ csv_data' = IF res[i].kind = "row"
                           THEN Append(csv_data, res[i].row) ELSE csv_data
            /\ UNCHANGED << pc, exitCode >>
    /\ UNCHANGED << inputVars, log, items, nsub, st, res, calls, threads,
                    requests, disk, zip, csv, fnVars >>

\* df['File Name'].str.replace('.pdf', '', regex=False).astype(int)
RowKey(row) == ParseInt(Replace(row.name, DotPdf, <<>>))

\* set_index('File Name') and sort_index(): rows ascending by key.  Rows of
\* equal key are kept in arrival order; arrival order is itself arbitrary,
\* so every order the sort may leave them in is covered.
SortIndex(rows) ==
    LET n == Len(rows)
        before(q, r) == RowKey(rows[q]) < RowKey(rows[r])
                          \/ (RowKey(rows[q]) = RowKey(rows[r]) /\ q < r)
        pos(r) == Cardinality({ q \in 1..n : before(q, r) }) + 1
    IN  [ k \in 1..n |->
            LET r == CHOOSE x \in 1..n : pos(x) = k
            IN  [key |-> RowKey(rows[r]), fields |-> rows[r].fields] ]

\* lines 299-309: build the frame and write the CSV (the write itself is
\* taken to succeed).  With no row at all, DataFrame([]) has no 'File Name'
\* column and line 300 raises KeyError out of main.
WriteCsv ==
    /\ mode = "parser" /\ pc = "aggregate"
    /\ IF csv_data = <<>>
       THEN /\ pc' = "crashed"
            /\ exitCode' = <<1>>
            /\ UNCHANGED << csv, log >>
       ELSE /\ csv' = [written |-> TRUE, rows |-> SortIndex(csv_data)]
            /\ log' = log \cup {LogRec("INFO", "csv_created", 0)}
            /\ pc' = "done"
            /\ exitCode' = <<0>>
    /\ UNCHANGED << inputVars, execVars, requests, disk, zip, csv_data, fnVars >>

(***************************************************************************)
(* Calls of the pure helpers on their own                                  *)
(***************************************************************************)
\* modify_dropbox_link applied to the link, then to its own result
Normalize ==
    /\ mode = "normalize" /\ Len(fnNorm) < 2
    /\ fnNorm' = Append(fnNorm,
                        modify_dropbox_link(IF fnNorm = <<>> THEN fnUrl
                                            ELSE fnNorm[Len(fnNorm)]))
    /\ UNCHANGED << inputVars, pc, exitCode, log, execVars, effectVars,
                    fnUrl, fnText, fnApi, fnCtx >>

\* extract_education_context(text, api_choice) with the default window_size
ContextCall ==
    /\ mode = "context" /\ fnCtx = <<>>
    /\ fnCtx' = << extract_education_context(fnText, fnApi, WINDOW_SIZE) >>
    /\ UNCHANGED << inputVars, pc, exitCode, log, execVars, effectVars,
                    fnUrl, fnNorm, fnText, fnApi >>

(***************************************************************************)
(* Specification                                                           *)
(***************************************************************************)
InitCommon ==
    /\ pc = "startup" /\ exitCode = <<>> /\ log = {}
    /\ items = <<>> /\ nsub = 0 /\ st = <<>> /\ res = <<>> /\ calls = <<>>
    /\ threads = 0 /\ got = <<>>
    /\ requests = {}
    /\ zip = [written |-> FALSE, entries |-> {}]
    /\ csv_data = <<>>
    /\ csv = [written |-> FALSE, rows |-> <<>>]
    /\ fnNorm = <<>> /\ fnCtx = <<>>

InitDownload ==
    /\ mode = "download"
    /\ excelOk \in BOOLEAN
    /\ \E t \in SmallTables :
         /\ df = [ k \in 1..Len(t) |-> t[k].cell ]
         /\ net = [ k \in 1..Len(t) |-> t[k].resp ]
    /\ disk = {}
    /\ api = "openai" /\ dirOk = TRUE /\ dir = {}
    /\ fnUrl = <<>> /\ fnText = <<>> /\ fnApi = "openai"

InitParser ==
    /\ mode = "parser"
    /\ api \in Apis
    /\ dirOk \in BOOLEAN
    /\ dir \in SmallDirs
    /\ excelOk = TRUE /\ df = <<>> /\ net = <<>> /\ disk = {}
    /\ fnUrl = <<>> /\ fnText = <<>> /\ fnApi = "openai"

InitNormalize ==
    /\ mode = "normalize"
    /\ fnUrl \in { LinkChars(n) : n \in LinkNames }
    /\ excelOk = TRUE /\ df = <<>> /\ net = <<>> /\ disk = {}
    /\ api = "openai" /\ dirOk = TRUE /\ dir = {}
    /\ fnText = <<>> /\ fnApi = "openai"

InitContext ==
    /\ mode = "context"
    /\ fnText \in ContextTexts
    /\ fnApi \in Apis
    /\ excelOk = TRUE /\ df = <<>> /\ net = <<>> /\ disk = {}
    /\ api = "openai" /\ dirOk = TRUE /\ dir = {}
    /\ fnUrl = <<>>

Init ==
    /\ InitCommon
    /\ \/ InitDownload
       \/ InitParser
       \/ InitNormalize
       \/ InitContext

Next ==
    \/ DownloadStartup
    \/ ParserStartup
    \/ Submit
    \/ SubmitDone
    \/ \E i \in Idx : Start(i)
    \/ \E i \in Idx : RunDownload(i)
    \/ \E i \in Idx : RunParser(i)
    \/ \E i \in Idx : CollectDownload(i)
    \/ \E i \in Idx : CollectParser(i)
    \/ CollectDone
    \/ CreateZip
    \/ WriteCsv
    \/ Normalize
    \/ ContextCall

Spec == Init /\ [][Next]_vars

(***************************************************************************)
(* The two pipelines under full load: more units than worker threads       *)
(***************************************************************************)
InitFullDownload ==
    /\ mode = "download"
    /\ excelOk = TRUE
    /\ df = [ k \in 1..Len(FullTable) |-> FullTable[k].cell ]
    /\ net = [ k \in 1..Len(FullTable) |-> FullTable[k].resp ]
    /\ disk = {}
    /\ api = "openai" /\ dirOk = TRUE /\ dir = {}
    /\ fnUrl = <<>> /\ fnText = <<>> /\ fnApi = "openai"

InitFullParser ==
    /\ mode = "parser"
    /\ api \in Apis
    /\ dirOk = TRUE
    /\ dir = FullDir
    /\ excelOk = TRUE /\ df = <<>> /\ net = <<>> /\ disk = {}
    /\ fnUrl = <<>> /\ fnText = <<>> /\ fnApi = "openai"

InitFull == InitCommon /\ (InitFullDownload \/ InitFullParser)

NextPipelines ==
    \/ DownloadStartup
    \/ ParserStartup
    \/ Submit
    \/ SubmitDone
    \/ \E i \in Idx : Start(i)
    \/ \E i \in Idx : RunDownload(i)
    \/ \E i \in Idx : RunParser(i)
    \/ \E i \in Idx : CollectDownload(i)
    \/ \E i \in Idx : CollectParser(i)
    \/ CollectDone
    \/ CreateZip
    \/ WriteCsv

SpecFull == InitFull /\ [][NextPipelines]_vars

(***************************************************************************)
(* Properties                                                              *)
(***************************************************************************)
\* the main thread has left the executor block
LeftExecutor == pc \notin {"startup", "submit", "collect"}

TerminalKinds == {"true", "false", "raise", "row", "none"}

\* C1: once the executor loop has finished, every work item was submitted
\* and exactly one terminal outcome was collected for each of them, so the
\* number of collected results equals the number of work items.
C1_OneResultPerItem ==
    LeftExecutor =>
        /\ nsub = Len(items)
        /\ \A i \in Idx :
             st[i] = "done" /\ res[i].kind \in TerminalKinds /\ got[i] = 1

\* a download run left the loop having collected a success, a failure and
\* a raised exception
C1_Witness ==
    /\ mode = "download" /\ pc = "aggregate"
    /\ \E i, j \in Idx :
         /\ res[i].kind = "raise" /\ res[j].kind = "true"
         /\ got[i] = 1 /\ got[j] = 1

\* C2: at every moment the number of units being executed is at most the
\* worker budget: MAX_THREADS (10) when downloading, 5 when extracting.
C2_WorkerBudget ==
    /\ mode = "download" => Cardinality(Running) <= 10
    /\ mode = "parser" => Cardinality(Running) <= 5

\* ten downloads run at once while an eleventh unit waits in the queue
C2_Witness ==
    mode = "download" /\ Cardinality(Running) = 10 /\ Queued # {}

\* C3: whatever units fail, once the process has ended every unit has
\* reached its outcome and the final artifact (zip or CSV) has been written
\* and holds every unit that succeeded.
C3_ArtifactAlwaysWritten ==
    (exitCode # <<>> /\ Len(items) > 0) =>
        /\ \A i \in Idx : st[i] = "done"
        /\ mode = "download" =>
             /\ zip.written
             /\ \A i \in Idx : res[i].kind = "true" =>
                  [name |-> items[i].id, content |-> "full"] \in zip.entries
        /\ mode = "parser" =>
             /\ csv.written
             /\ \A i \in Idx : res[i].kind = "row" =>
                  \E k \in 1..Len(csv.rows) : csv.rows[k].key = items[i].id

\* the backend's last answer for unit i parsed as a structured record
ParsedAsRecord(i) ==
    /\ st[i] = "done" /\ calls[i] # <<>>
    /\ LET last == calls[i][Len(calls[i])]
       IN  /\ last \notin {"ratelimit", "error"}
           /\ json_loads(BodyOf(last, api)).ok
           /\ json_loads(BodyOf(last, api)).isDict

\* C4: the rows of the written CSV are strictly ascending by identity, and
\* there are exactly as many rows as units whose backend answer parsed as a
\* structured record; no unit that failed has a row.
C4_CsvSortedAndComplete ==
    csv.written =>
        /\ \A k \in 1..(Len(csv.rows) - 1) : csv.rows[k].key < csv.rows[k + 1].key
        /\ Len(csv.rows) = Cardinality({ i \in Idx : ParsedAsRecord(i) })
        /\ \A k \in 1..Len(csv.rows) :
             \E i \in Idx : items[i].id = csv.rows[k].key /\ ParsedAsRecord(i)

\* C5: the archive holds an entry for an identity only if that unit's
\* outcome in this run was Success.
C5_ArchiveOnlySuccesses ==
    zip.written =>
        \A e \in zip.entries :
            \E i \in Idx : items[i].id = e.name /\ res[i].kind = "true"

\* out is url with every "dl=0" turned into "dl=1" and nothing else changed
SameButDl1(url, out) ==
    /\ Len(out) = Len(url)
    /\ ~Contains(out, StrDl0)
    /\ \A k \in 1..Len(url) :
         out[k] # url[k] =>
            /\ url[k] = "0" /\ out[k] = "1"
            /\ k - 3 \in Occurrences(url, StrDl0)

\* C6: modify_dropbox_link is idempotent; it maps a Dropbox URL carrying
\* "dl=0" to the same URL with "dl=1" and returns other URLs unchanged.
C6_NormalizeIdempotent ==
    /\ Len(fnNorm) >= 1 =>
         /\ (Contains(fnUrl, StrDropbox) /\ Contains(fnUrl, StrDl0))
               => SameButDl1(fnUrl, fnNorm[1])
         /\ ~Contains(fnUrl, StrDropbox) => fnNorm[1] = fnUrl
    /\ Len(fnNorm) = 2 => fnNorm[2] = fnNorm[1]

\* the path of the normalized link does not end in ".pdf" in any letter case
NotPdfPath(name) ==
    ~EndsWith(Lower(UrlPath(modify_dropbox_link(LinkChars(name)))), DotPdf)

\* C7: a link whose normalized path does not end in ".pdf" ends in Failure
\* with no HTTP request issued and no file written for its identity; a
\* request is issued only for links that pass the pre-filter.
C7_PrefilterRejectsWithoutRequest ==
    mode = "download" =>
        \A i \in Idx :
            (Link(i).kind = "str" /\ NotPdfPath(Link(i).link)) =>
                /\ items[i].id \notin requests
                /\ \A f \in disk : f.name # items[i].id
                /\ st[i] = "done" => res[i].kind = "false"

\* a Dropbox link that normalization turned into a non-PDF path was rejected
\* while another unit of the same run issued its request
C7_Witness ==
    /\ mode = "download"
    /\ \E i, j \in Idx :
         /\ Link(i).kind = "str" /\ Link(i).link = "dropbox_bare"
         /\ st[i] = "done" /\ res[i].kind = "false"
         /\ items[j].id \in requests

\* C8: for either backend, when the text holds the anchor "education" in
\* any letter case the window starts at its first occurrence and has bounded
\* length; when it does not, the window is a fixed-size prefix of the text.
C8_ContextWindowAtAnchor ==
    (mode = "context" /\ fnCtx # <<>>) =>
        LET ctx == fnCtx[1]
            m   == SearchEducation(fnText)
        IN  IF m > 0
            THEN /\ Len(ctx) <= 60 * 6 * 20
                 /\ m + Len(ctx) - 1 <= Len(fnText)
                 /\ ctx = SubSeq(fnText, m, m + Len(ctx) - 1)
            ELSE ctx = Prefix(fnText, IF fnApi = "ollama" THEN 60 * 6 * 3 ELSE 60 * 6 * 20)

\* the run has a fatal configuration error
FatalConfig ==
    \/ mode = "download" /\ ~excelOk
    \/ mode = "parser" /\ ~dirOk

\* C9: a fatal configuration error ends the process at once with a non-zero
\* exit status and a logged message, before any unit is submitted.
C9_FatalConfigExitsNonZero ==
    (FatalConfig /\ pc # "startup") =>
        /\ exitCode # <<>> /\ exitCode # <<0>>
        /\ \E r \in log : r.level = "ERROR"
        /\ nsub = 0 /\ items = <<>>

\* C10: on the hosted backend a unit makes at most 2 completion calls, a
\* further call only after a call that ended with a rate-limit error; any
\* other error ends the unit at once, and a unit whose last call failed ends
\* with None, no exception leaving extract_education_history_openai.
C10_BoundedRetryOnRateLimit ==
    (mode = "parser" /\ api = "openai") =>
        \A i \in Idx :
            /\ Len(calls[i]) <= 2
            /\ \A k \in 1..(Len(calls[i]) - 1) : calls[i][k] = "ratelimit"
            /\ (st[i] = "running" /\ calls[i] # <<>>) =>
                  calls[i][Len(calls[i])] = "ratelimit"
            /\ res[i].kind # "raise"
            /\ (st[i] = "done" /\ calls[i] # <<>>
                  /\ calls[i][Len(calls[i])] \in {"ratelimit", "error"})
                  => res[i].kind = "none"

\* one unit gave up after two rate-limited calls, another ended after a
\* single call that raised a different error
C10_Witness ==
    /\ mode = "parser" /\ api = "openai"
    /\ \E i, j \in Idx :
         /\ st[i] = "done" /\ calls[i] = <<"ratelimit", "ratelimit">>
         /\ res[i].kind = "none"
         /\ st[j] = "done" /\ calls[j] = <<"error">> /\ res[j].kind = "none"

====
